---- MODULE Spec2Model ----
(***************************************************************************)
(* Model of the Vulkan part of the pipeline archiver                       *)
(* (Graphics/Archiver/src/Archiver_Vk.cpp):                                *)
(*   ArchiverImpl::PatchShadersVk                  - archiving path        *)
(*   SerializationDeviceImpl::GetPipelineResourceBindingsVk - live query   *)
(* Helpers that the two functions call but that live in other files        *)
(* (SortResourceSignatures, RemapShaderResources, SerializeShaderBytecode, *)
(* CreateDefaultResourceSignature, PipelineResourceSignatureVkImpl) are    *)
(* modelled from the design document.                                      *)
(*                                                                         *)
(* Model of a staging buffer of the WebGPU backend                         *)
(* (Graphics/GraphicsEngineWebGPU/src/BufferWebGPUImpl.cpp):               *)
(*   GetStagingBufferInfo / FindAvailableReadMemoryBuffer,                 *)
(*   ProcessAsyncReadback and its map callback, Map, Unmap.                *)
(***************************************************************************)
EXTENDS Integers, Sequences, FiniteSets, TLC

(***************************************************************************)
(* Bounds of the model.  MAX_RESOURCE_SIGNATURES is 8 in the engine; the   *)
(* model scales it down so that a completely filled slot array (2 * MAX    *)
(* descriptor sets) is reached.                                            *)
(***************************************************************************)
MAX_RESOURCE_SIGNATURES == 2
MaxSigCount == 2
MaxShaders == 2
MaxBlobs == 2
\* MaxPendingBuffers is a constant of BufferWebGPUImpl.hpp; the model scales
\* it down so that a vector filled to its reserved capacity is reached
MaxPendingBuffers == 2
\* calls of ProcessAsyncReadback in one behaviour: as many as it takes to
\* have every reserved entry pending (the vector then holds at most
\* MaxReadbacks + 1 entries)
MaxReadbacks == MaxPendingBuffers

(***************************************************************************)
(* Program constants.                                                      *)
(***************************************************************************)
SHADER_TYPE_UNKNOWN == 0
SHADER_TYPE_VERTEX == 1
SHADER_TYPE_PIXEL == 2
\* static_cast<SHADER_TYPE>(~0u): every stage bit set.  Masks are kept to 31
\* bits, all SHADER_TYPE flags lie below.
ALL_SHADER_STAGES == 2147483647
\* ~0u returned by GetDescriptorSetSize for a descriptor set that does not exist
INVALID_SET_SIZE == 2147483647
DESCRIPTOR_SET_ID_STATIC_MUTABLE == 0
DESCRIPTOR_SET_ID_DYNAMIC == 1
DeviceTypeVulkan == "Vulkan"

Max(a, b) == IF a >= b THEN a ELSE b

\* operator & on unsigned masks
RECURSIVE BitAnd(_, _)
BitAnd(a, b) ==
    IF a = 0 \/ b = 0 THEN 0
    ELSE (a % 2) * (b % 2) + 2 * BitAnd(a \div 2, b \div 2)

\* operator | on unsigned masks
RECURSIVE BitOr(_, _)
BitOr(a, b) ==
    IF a = 0 THEN b
    ELSE IF b = 0 THEN a
    ELSE Max(a % 2, b % 2) + 2 * BitOr(a \div 2, b \div 2)

(***************************************************************************)
(* Resource signatures.                                                    *)
(***************************************************************************)
\* a null entry of ppResourceSignatures / an empty slot of SignatureArray
NullSignature == [BindingIndex |-> -1, Resources |-> <<>>, Null |-> TRUE]

VAR_STATIC_MUTABLE == "static_mutable"
VAR_DYNAMIC == "dynamic"

ResTex0 == [Name |-> "tex0", ShaderStages |-> SHADER_TYPE_PIXEL, VarClass |-> VAR_STATIC_MUTABLE]
ResCBuf0 == [Name |-> "cbuf0", ShaderStages |-> SHADER_TYPE_VERTEX, VarClass |-> VAR_DYNAMIC]
ResSamp0 == [Name |-> "samp0", ShaderStages |-> 3, VarClass |-> VAR_STATIC_MUTABLE]

\* resource lists of the signatures the inputs are drawn from: no descriptor
\* set, static/mutable set only, dynamic set only, both sets
SignatureResources ==
    { <<>>, <<ResTex0>>, <<ResCBuf0>>, <<ResCBuf0, ResTex0, ResSamp0>> }

Signature(idx, res) == [BindingIndex |-> idx, Resources |-> res, Null |-> FALSE]

\* PipelineResourceSignatureVkImpl::GetTotalResourceCount
GetTotalResourceCount(sig) == Len(sig.Resources)

\* PipelineResourceSignatureVkImpl::GetResourceDesc
GetResourceDesc(sig, r) == sig.Resources[r + 1]

\* number of resources of a signature that live in the given descriptor set
ResourcesInSet(sig, SetId) ==
    Cardinality({r \in 1..Len(sig.Resources) :
        sig.Resources[r].VarClass =
            (IF SetId = DESCRIPTOR_SET_ID_STATIC_MUTABLE THEN VAR_STATIC_MUTABLE ELSE VAR_DYNAMIC)})

\* PipelineResourceSignatureVkImpl::GetDescriptorSetSize: ~0u when the set does not exist
GetDescriptorSetSize(sig, SetId) ==
    IF ResourcesInSet(sig, SetId) = 0 THEN INVALID_SET_SIZE ELSE ResourcesInSet(sig, SetId)

\* PipelineResourceSignatureVkImpl::GetResourceAttribs: signature-relative
\* descriptor set and binding slot of resource r
GetResourceAttribs(sig, r) ==
    LET res == sig.Resources[r + 1]
        hasSM == GetDescriptorSetSize(sig, DESCRIPTOR_SET_ID_STATIC_MUTABLE) # INVALID_SET_SIZE
    IN  [ DescrSet |-> IF res.VarClass = VAR_STATIC_MUTABLE THEN 0
                       ELSE IF hasSM THEN 1 ELSE 0,
          BindingIndex |-> Cardinality({q \in 1..r : sig.Resources[q].VarClass = res.VarClass}) ]

\* SignatureArray<PipelineResourceSignatureVkImpl> Signatures = {}
EmptySignatureArray == [i \in 0..(MAX_RESOURCE_SIGNATURES - 1) |-> NullSignature]

(***************************************************************************)
(* Signature Sorter.                                                       *)
(***************************************************************************)
SortFailed == [ok |-> FALSE, Signatures |-> EmptySignatureArray, SignaturesCount |-> 0]

\* whether the sorter accepts the binding index b for the slot array Sorted
SlotAvailable(Sorted, b) ==
    /\ b >= 0
    /\ b <= MAX_RESOURCE_SIGNATURES - 1
    /\ Sorted[b] = NullSignature

\* mutant: the signature is stored in the first empty slot, in arrival order
PlaceSignature_FirstFree(Sorted, sig) ==
    [Sorted EXCEPT ![CHOOSE i \in DOMAIN Sorted :
                        /\ Sorted[i] = NullSignature
                        /\ \A j \in DOMAIN Sorted : Sorted[j] = NullSignature => i <= j] = sig]

\* slot array after storing sig
PlaceSignature(Sorted, sig) == [Sorted EXCEPT ![sig.BindingIndex] = sig]

RECURSIVE SortFrom(_, _, _, _)
SortFrom(ppSrc, i, Sorted, Count) ==
    IF i > Len(ppSrc)
    THEN [ok |-> TRUE, Signatures |-> Sorted, SignaturesCount |-> Count]
    ELSE IF ppSrc[i] = NullSignature
    THEN SortFrom(ppSrc, i + 1, Sorted, Count)
    ELSE IF ~SlotAvailable(Sorted, ppSrc[i].BindingIndex)
    THEN SortFailed
    ELSE SortFrom(ppSrc, i + 1, PlaceSignature(Sorted, ppSrc[i]),
                  Max(Count, ppSrc[i].BindingIndex + 1))

SortResourceSignatures(ppSrc) == SortFrom(ppSrc, 1, EmptySignatureArray, 0)

(***************************************************************************)
(* Descriptor Layout Assigner, as written in PatchShadersVk.               *)
(***************************************************************************)
\* mutant: both descriptor sets are counted without the test against ~0u
CountDescriptorSets_Unconditional(sig, DescSetLayoutCount) == DescSetLayoutCount + 2

\* the loop over {DESCRIPTOR_SET_ID_STATIC_MUTABLE, DESCRIPTOR_SET_ID_DYNAMIC}
CountDescriptorSets(sig, DescSetLayoutCount) ==
    LET c1 == IF GetDescriptorSetSize(sig, DESCRIPTOR_SET_ID_STATIC_MUTABLE) # INVALID_SET_SIZE
              THEN DescSetLayoutCount + 1 ELSE DescSetLayoutCount
    IN  IF GetDescriptorSetSize(sig, DESCRIPTOR_SET_ID_DYNAMIC) # INVALID_SET_SIZE
        THEN c1 + 1 ELSE c1

EmptyBindIndexToDescSetIndex == [i \in 0..(MAX_RESOURCE_SIGNATURES - 1) |-> 0]

\* mutant: the binding index itself is recorded as the descriptor set index
RecordDescSetIndex_Identity(Map, i, DescSetLayoutCount) == [Map EXCEPT ![i] = i]

\* BindIndexToDescSetIndex[i] = DescSetLayoutCount
RecordDescSetIndex(Map, i, DescSetLayoutCount) == [Map EXCEPT ![i] = DescSetLayoutCount]

RECURSIVE AssignFrom(_, _, _, _, _, _)
AssignFrom(Signatures, SignaturesCount, i, Map, DescSetLayoutCount, VerifyOk) ==
    IF i >= SignaturesCount
    THEN [ BindIndexToDescSetIndex |-> Map,
           DescSetLayoutCount |-> DescSetLayoutCount,
           VerifyOk |-> VerifyOk,
           VerifyCountOk |-> DescSetLayoutCount <= MAX_RESOURCE_SIGNATURES * 2 ]
    ELSE IF Signatures[i] = NullSignature
    THEN AssignFrom(Signatures, SignaturesCount, i + 1, Map, DescSetLayoutCount, VerifyOk)
    ELSE AssignFrom(Signatures, SignaturesCount, i + 1,
                    RecordDescSetIndex(Map, i, DescSetLayoutCount),
                    CountDescriptorSets(Signatures[i], DescSetLayoutCount),
                    VerifyOk /\ Signatures[i].BindingIndex = i)

AssignDescriptorSets(Signatures, SignaturesCount) ==
    AssignFrom(Signatures, SignaturesCount, 0, EmptyBindIndexToDescSetIndex, 0, TRUE)

(***************************************************************************)
(* Shaders and shader stages.                                              *)
(***************************************************************************)
\* bytecode of a compiled shader: the code and the one resource it references
\* (Ref = "" when it references none), with the descriptor set and binding
\* that the reference carries
CompiledSPIRV(shader) == [Code |-> shader.Code, Ref |-> shader.Ref, Set |-> 0, Binding |-> 0]

ShaderTypeOrder == <<SHADER_TYPE_VERTEX, SHADER_TYPE_PIXEL>>

ShadersOfType(Shaders, Type) == SelectSeq(Shaders, LAMBDA s : s.Type = Type)

RECURSIVE MapSPIRV(_)
MapSPIRV(Shaders) ==
    IF Shaders = <<>> THEN <<>>
    ELSE <<CompiledSPIRV(Head(Shaders))>> \o MapSPIRV(Tail(Shaders))

\* PipelineStateVkImpl::ExtractShaders followed by the copy loop of
\* PatchShadersVk: one stage per shader type that is used, in stage order
RECURSIVE ExtractFrom(_, _)
ExtractFrom(Shaders, t) ==
    IF t > Len(ShaderTypeOrder) THEN <<>>
    ELSE LET ofType == ShadersOfType(Shaders, ShaderTypeOrder[t])
         IN  (IF ofType = <<>> THEN <<>>
              ELSE << [ Type |-> ShaderTypeOrder[t],
                        Serializable |-> ofType,
                        SPIRVs |-> MapSPIRV(ofType) ] >>)
             \o ExtractFrom(Shaders, t + 1)

ExtractShaders(Shaders) == ExtractFrom(Shaders, 1)

(***************************************************************************)
(* Default-signature synthesis.                                            *)
(***************************************************************************)
\* adds the resource a shader references to the resource list of the default
\* signature, merging the stage masks of a resource used by several stages
AddDefaultResource(Res, Name, Type) ==
    IF \E k \in 1..Len(Res) : Res[k].Name = Name
    THEN [k \in 1..Len(Res) |->
            IF Res[k].Name = Name
            THEN [Res[k] EXCEPT !.ShaderStages = BitOr(Res[k].ShaderStages, Type)]
            ELSE Res[k]]
    ELSE Append(Res, [Name |-> Name, ShaderStages |-> Type, VarClass |-> VAR_STATIC_MUTABLE])

RECURSIVE DefaultResourcesOfStage(_, _, _)
DefaultResourcesOfStage(Stage, i, Res) ==
    IF i > Len(Stage.SPIRVs) THEN Res
    ELSE DefaultResourcesOfStage(Stage, i + 1,
            IF Stage.SPIRVs[i].Ref = "" THEN Res
            ELSE AddDefaultResource(Res, Stage.SPIRVs[i].Ref, Stage.Type))

RECURSIVE DefaultResources(_, _, _)
DefaultResources(ShaderStagesVk, j, Res) ==
    IF j > Len(ShaderStagesVk) THEN Res
    ELSE DefaultResources(ShaderStagesVk, j + 1, DefaultResourcesOfStage(ShaderStagesVk[j], 1, Res))

\* binding index of the synthesized signature
DefaultSignatureBindingIndex == 0

\* CreateDefaultResourceSignature: SynthOk is the outcome of the collaborator
CreateDefaultResourceSignature(ShaderStagesVk, SynthOk) ==
    IF SynthOk
    THEN [ok |-> TRUE,
          pPRS |-> Signature(DefaultSignatureBindingIndex, DefaultResources(ShaderStagesVk, 1, <<>>))]
    ELSE [ok |-> FALSE, pPRS |-> NullSignature]

(***************************************************************************)
(* Shader Resource Remapper.                                               *)
(***************************************************************************)
\* resources of sig with the given name that are visible to the stage
MatchingResources(sig, Name, Type) ==
    {r \in 0..(GetTotalResourceCount(sig) - 1) :
        /\ GetResourceDesc(sig, r).Name = Name
        /\ BitAnd(GetResourceDesc(sig, r).ShaderStages, Type) # 0}

\* slots whose signature declares the resource
DeclaringSlots(Signatures, SignaturesCount, Name, Type) ==
    {i \in 0..(SignaturesCount - 1) :
        /\ Signatures[i] # NullSignature
        /\ MatchingResources(Signatures[i], Name, Type) # {}}

Minimum(S) == CHOOSE x \in S : \A y \in S : x <= y

\* one bytecode blob with its reference rewritten to the final set and binding
RemapSPIRV(SPIRV, Type, Signatures, SignaturesCount, BindIndexToDescSetIndex) ==
    IF SPIRV.Ref = "" THEN [ok |-> TRUE, SPIRV |-> SPIRV]
    ELSE LET slots == DeclaringSlots(Signatures, SignaturesCount, SPIRV.Ref, Type)
         IN  IF slots = {} THEN [ok |-> FALSE, SPIRV |-> SPIRV]
             ELSE LET i == Minimum(slots)
                      r == Minimum(MatchingResources(Signatures[i], SPIRV.Ref, Type))
                      attr == GetResourceAttribs(Signatures[i], r)
                  IN  [ok |-> TRUE,
                       SPIRV |-> [SPIRV EXCEPT !.Set = BindIndexToDescSetIndex[i] + attr.DescrSet,
                                               !.Binding = attr.BindingIndex]]

RemapStage(Stage, Signatures, SignaturesCount, BindIndexToDescSetIndex) ==
    LET res == [i \in 1..Len(Stage.SPIRVs) |->
                  RemapSPIRV(Stage.SPIRVs[i], Stage.Type, Signatures, SignaturesCount,
                             BindIndexToDescSetIndex)]
    IN  [ok |-> \A i \in 1..Len(res) : res[i].ok,
         Stage |-> [Stage EXCEPT !.SPIRVs = [i \in 1..Len(res) |-> res[i].SPIRV]]]

\* PipelineStateVkImpl::RemapShaderResources: throws (ok = FALSE) when a
\* reference of any stage is not resolved
RemapShaderResources(ShaderStagesVk, Signatures, SignaturesCount, BindIndexToDescSetIndex) ==
    LET res == [j \in 1..Len(ShaderStagesVk) |->
                  RemapStage(ShaderStagesVk[j], Signatures, SignaturesCount,
                             BindIndexToDescSetIndex)]
    IN  [ok |-> \A j \in 1..Len(res) : res[j].ok,
         Stages |-> [j \in 1..Len(res) |-> res[j].Stage]]

(***************************************************************************)
(* Bytecode Archiver.                                                      *)
(***************************************************************************)
ShaderBlob(DevType, Type, Bytes) == [DevType |-> DevType, Type |-> Type, Bytes |-> Bytes]

NotFound == -1

\* mutant: the lookup compares the byte content only
FindShader_BytesOnly(List, Blob) ==
    IF \E k \in 1..Len(List) : List[k].Bytes = Blob.Bytes
    THEN Minimum({k \in 1..Len(List) : List[k].Bytes = Blob.Bytes}) - 1
    ELSE NotFound

\* lookup in the deduplication table: index of the blob in the store
FindShader(List, Blob) ==
    IF \E k \in 1..Len(List) : List[k] = Blob
    THEN Minimum({k \in 1..Len(List) : List[k] = Blob}) - 1
    ELSE NotFound

\* insert into the deduplication table and the blob store
EmplaceShader(List, Blob, Found) ==
    IF Found = NotFound THEN Append(List, Blob) ELSE List

\* index handed back for a blob
ArchivedShaderIndex(List, Found) ==
    IF Found = NotFound THEN Len(List) ELSE Found

\* ArchiverImpl::SerializeShaderBytecode: lookup-or-insert, then push the index
SerializeShaderBytecode(Arch, DevType, Type, Bytes) ==
    LET Blob == ShaderBlob(DevType, Type, Bytes)
        Found == FindShader(Arch.List, Blob)
    IN  [ List |-> EmplaceShader(Arch.List, Blob, Found),
          ShaderIndices |-> Append(Arch.ShaderIndices, ArchivedShaderIndex(Arch.List, Found)),
          Serialized |-> Append(Arch.Serialized, Blob) ]

\* the inner loop of PatchShadersVk over the shaders of one stage
RECURSIVE SerializeStage(_, _, _)
SerializeStage(Arch, Stage, i) ==
    IF i > Len(Stage.SPIRVs) THEN Arch
    ELSE SerializeStage(
            SerializeShaderBytecode(Arch, DeviceTypeVulkan, Stage.Serializable[i].Type, Stage.SPIRVs[i]),
            Stage, i + 1)

\* the outer loop of PatchShadersVk over the stages
RECURSIVE SerializeStages(_, _, _)
SerializeStages(Arch, ShaderStagesVk, j) ==
    IF j > Len(ShaderStagesVk) THEN Arch
    ELSE SerializeStages(SerializeStage(Arch, ShaderStagesVk[j], 1), ShaderStagesVk, j + 1)

\* ArchiverImpl::SerializeShadersForPSO: the count followed by the indices
SerializeShadersForPSO(ShaderIndices) == <<Len(ShaderIndices)>> \o ShaderIndices

\* an empty SerializedData
NoData == <<>>

(***************************************************************************)
(* ArchiverImpl::PatchShadersVk.                                           *)
(***************************************************************************)
\* mutant: a list that holds null entries only counts as no signatures
NoSignaturesSupplied_AllNull(CI) ==
    \A k \in 1..Len(CI.ppResourceSignatures) : CI.ppResourceSignatures[k] = NullSignature

\* CreateInfo.ResourceSignaturesCount == 0
NoSignaturesSupplied(CI) == Len(CI.ppResourceSignatures) = 0

\* mutant: a failure of the sorter is not taken as an exception
TryBlockThrew_RemapOnly(Sorted, Remap) == ~Remap.ok

\* mutant: a failure of the remapping is not taken as an exception
TryBlockThrew_SortOnly(Sorted, Remap) == ~Sorted.ok

\* the catch (...) block: whether the try block threw
TryBlockThrew(Sorted, Remap) == ~Sorted.ok \/ ~Remap.ok

\* the two loops over ShaderStagesVk that archive the bytecode, and the
\* assignment of Data.PerDeviceData
ArchiveShaders(List, ShaderStagesVk) ==
    LET Arch == SerializeStages([List |-> List, ShaderIndices |-> <<>>, Serialized |-> <<>>],
                                ShaderStagesVk, 1)
    IN  [ List |-> Arch.List,
          ShaderIndices |-> Arch.ShaderIndices,
          Serialized |-> Arch.Serialized,
          Data |-> SerializeShadersForPSO(Arch.ShaderIndices) ]

\* outcome of one call: the return value, the locals of the call and the new
\* values of the archive's blob store and of Data.PerDeviceData[Vulkan]
PatchShadersVkOutcome(CI, SynthOk, List, Data) ==
    LET ShaderStagesVk == ExtractShaders(CI.Shaders)
        UseDefault == NoSignaturesSupplied(CI)
        Def == CreateDefaultResourceSignature(ShaderStagesVk, SynthOk)
        ppSignatures == IF UseDefault THEN <<Def.pPRS>> ELSE CI.ppResourceSignatures
        Sorted == SortResourceSignatures(ppSignatures)
        Layout == AssignDescriptorSets(Sorted.Signatures, Sorted.SignaturesCount)
        Remap == RemapShaderResources(ShaderStagesVk, Sorted.Signatures,
                                      Sorted.SignaturesCount,
                                      Layout.BindIndexToDescSetIndex)
        Arch == ArchiveShaders(List, Remap.Stages)
        Pre == IF UseDefault THEN <<"synthesize">> ELSE <<>>
        Failed == [ Called |-> TRUE, ret |-> FALSE,
                    Trace |-> Pre,
                    DefaultInvoked |-> UseDefault,
                    ppSignatures |-> <<>>,
                    SortOk |-> FALSE,
                    Signatures |-> EmptySignatureArray,
                    SignaturesCount |-> 0,
                    BindIndexToDescSetIndex |-> EmptyBindIndexToDescSetIndex,
                    DescSetLayoutCount |-> 0,
                    VerifyOk |-> TRUE,
                    VerifyCountOk |-> TRUE,
                    RemapOk |-> FALSE,
                    Serialized |-> <<>>,
                    ShaderIndices |-> <<>>,
                    List |-> List,
                    Data |-> Data ]
        Reached == [ Failed EXCEPT
                       !.ppSignatures = ppSignatures,
                       !.SortOk = Sorted.ok,
                       !.Signatures = Sorted.Signatures,
                       !.SignaturesCount = Sorted.SignaturesCount,
                       !.BindIndexToDescSetIndex =
                           IF Sorted.ok THEN Layout.BindIndexToDescSetIndex
                           ELSE EmptyBindIndexToDescSetIndex,
                       !.DescSetLayoutCount = IF Sorted.ok THEN Layout.DescSetLayoutCount ELSE 0,
                       !.VerifyOk = IF Sorted.ok THEN Layout.VerifyOk ELSE TRUE,
                       !.VerifyCountOk = IF Sorted.ok THEN Layout.VerifyCountOk ELSE TRUE,
                       !.RemapOk = Sorted.ok /\ Remap.ok ]
    IN  IF UseDefault /\ ~Def.ok
        THEN Failed
        ELSE IF TryBlockThrew(Sorted, Remap)
        THEN [Reached EXCEPT
                !.Trace = Pre \o (IF Sorted.ok THEN <<"sort", "layout", "remap">> ELSE <<"sort">>)]
        ELSE [Reached EXCEPT
                !.ret = TRUE,
                !.Trace = Pre \o <<"sort", "layout", "remap", "archive", "store">>,
                !.Serialized = Arch.Serialized,
                !.ShaderIndices = Arch.ShaderIndices,
                !.List = Arch.List,
                !.Data = Arch.Data]

(***************************************************************************)
(* SerializationDeviceImpl::GetPipelineResourceBindingsVk.                 *)
(***************************************************************************)
\* ResDescToPipelineResBinding
ResDescToPipelineResBinding(ResDesc, Stages, Register, Space) ==
    [Name |-> ResDesc.Name, ShaderStages |-> Stages, Register |-> Register, Space |-> Space]

\* the filter that the loop tests the resources against
StageFilter(InfoShaderStages) ==
    IF InfoShaderStages = SHADER_TYPE_UNKNOWN THEN ALL_SHADER_STAGES ELSE InfoShaderStages

\* (ResDesc.ShaderStages & ShaderStages) == 0 leads to continue
ResourceSkipped(ResDesc, ShaderStages) == BitAnd(ResDesc.ShaderStages, ShaderStages) = 0

\* mutant: the signature-relative descriptor set is reported
ReportedDescrSet_Relative(DescSetLayoutCount, ResAttr) == ResAttr.DescrSet

\* descriptor set reported for a resource
ReportedDescrSet(DescSetLayoutCount, ResAttr) == DescSetLayoutCount + ResAttr.DescrSet

\* the loop over the resources of one signature
RECURSIVE ReportResources(_, _, _, _, _)
ReportResources(sig, r, ShaderStages, DescSetLayoutCount, Bindings) ==
    IF r >= GetTotalResourceCount(sig) THEN Bindings
    ELSE LET ResDesc == GetResourceDesc(sig, r)
             ResAttr == GetResourceAttribs(sig, r)
         IN  ReportResources(sig, r + 1, ShaderStages, DescSetLayoutCount,
                IF ResourceSkipped(ResDesc, ShaderStages) THEN Bindings
                ELSE Append(Bindings,
                        ResDescToPipelineResBinding(ResDesc, ResDesc.ShaderStages,
                            ResAttr.BindingIndex,
                            ReportedDescrSet(DescSetLayoutCount, ResAttr))))

\* mutant: one descriptor set is counted for every signature
QueryCountDescriptorSets_OnePerSignature(sig, DescSetLayoutCount) == DescSetLayoutCount + 1

\* descriptor set counter after a signature has been visited
QueryCountDescriptorSets(sig, DescSetLayoutCount) ==
    LET c1 == IF GetDescriptorSetSize(sig, DESCRIPTOR_SET_ID_STATIC_MUTABLE) # INVALID_SET_SIZE
              THEN DescSetLayoutCount + 1 ELSE DescSetLayoutCount
    IN  IF GetDescriptorSetSize(sig, DESCRIPTOR_SET_ID_DYNAMIC) # INVALID_SET_SIZE
        THEN c1 + 1 ELSE c1

\* the loop over the sorted signatures; Visited[sign] records the value that
\* DescSetLayoutCount has when slot sign is visited
RECURSIVE ReportFrom(_, _, _, _, _, _, _)
ReportFrom(Signatures, SignaturesCount, sign, ShaderStages, Bindings, DescSetLayoutCount, Visited) ==
    IF sign >= SignaturesCount
    THEN [ ResourceBindings |-> Bindings,
           DescSetLayoutCount |-> DescSetLayoutCount,
           Visited |-> Visited ]
    ELSE IF Signatures[sign] = NullSignature
    THEN ReportFrom(Signatures, SignaturesCount, sign + 1, ShaderStages, Bindings,
                    DescSetLayoutCount, Visited)
    ELSE ReportFrom(Signatures, SignaturesCount, sign + 1, ShaderStages,
                    ReportResources(Signatures[sign], 0, ShaderStages, DescSetLayoutCount, Bindings),
                    QueryCountDescriptorSets(Signatures[sign], DescSetLayoutCount),
                    [Visited EXCEPT ![sign] = DescSetLayoutCount])

\* outcome of one call; Threw is the exception of the sorter leaving the function
GetPipelineResourceBindingsVkOutcome(Info, ResourceBindingsIn) ==
    LET ShaderStages == StageFilter(Info.ShaderStages)
        Sorted == SortResourceSignatures(Info.ppResourceSignatures)
        Rep == ReportFrom(Sorted.Signatures, Sorted.SignaturesCount, 0, ShaderStages,
                          ResourceBindingsIn, 0, EmptyBindIndexToDescSetIndex)
    IN  IF ~Sorted.ok
        THEN [ Called |-> TRUE, Threw |-> TRUE,
               ShaderStages |-> Info.ShaderStages,
               SizeBefore |-> Len(ResourceBindingsIn),
               Signatures |-> EmptySignatureArray,
               SignaturesCount |-> 0,
               DescSetLayoutCount |-> 0,
               Visited |-> EmptyBindIndexToDescSetIndex,
               VerifyMaxOk |-> TRUE,
               VerifyMinOk |-> TRUE,
               ResourceBindings |-> ResourceBindingsIn ]
        ELSE [ Called |-> TRUE, Threw |-> FALSE,
               ShaderStages |-> Info.ShaderStages,
               SizeBefore |-> Len(ResourceBindingsIn),
               Signatures |-> Sorted.Signatures,
               SignaturesCount |-> Sorted.SignaturesCount,
               DescSetLayoutCount |-> Rep.DescSetLayoutCount,
               Visited |-> Rep.Visited,
               VerifyMaxOk |-> Rep.DescSetLayoutCount <= MAX_RESOURCE_SIGNATURES * 2,
               VerifyMinOk |-> Rep.DescSetLayoutCount >= Len(Info.ppResourceSignatures),
               ResourceBindings |-> Rep.ResourceBindings ]

(***************************************************************************)
(* Inputs.                                                                 *)
(***************************************************************************)
\* entries of a signature list: null, or a signature whose binding index may
\* be MAX_RESOURCE_SIGNATURES, one above the last valid index
SignatureInputs ==
    {NullSignature} \cup
    {Signature(i, res) : i \in 0..MAX_RESOURCE_SIGNATURES, res \in SignatureResources}

SignatureLists == UNION {[1..n -> SignatureInputs] : n \in 0..MaxSigCount}

Shader(Type, Code, Ref) == [Type |-> Type, Code |-> Code, Ref |-> Ref]

\* shader sets of the pipelines whose layout is examined
LayoutShaderLists ==
    { <<>>,
      <<Shader(SHADER_TYPE_PIXEL, "spv1", "tex0"), Shader(SHADER_TYPE_VERTEX, "spv1", "cbuf0")>> }

\* shaders of the pipelines that are archived one after the other
ArchiveShaderInputs ==
    { Shader(SHADER_TYPE_VERTEX, "spv1", ""),
      Shader(SHADER_TYPE_PIXEL, "spv1", ""),
      Shader(SHADER_TYPE_VERTEX, "spv1", "cbuf0") }

ArchiveShaderLists == UNION {[1..n -> ArchiveShaderInputs] : n \in 0..MaxShaders}

\* signature lists of the pipelines that are archived one after the other:
\* none (default signature), valid lists, a duplicate index, an index out of range
ArchiveSignatureLists ==
    { <<>>,
      <<Signature(0, <<ResCBuf0, ResTex0, ResSamp0>>)>>,
      <<Signature(1, <<ResTex0>>)>>,
      <<Signature(0, <<ResCBuf0>>), Signature(0, <<ResTex0>>)>>,
      <<Signature(MAX_RESOURCE_SIGNATURES, <<ResCBuf0>>)>> }

LayoutCreateInfos ==
    [ppResourceSignatures : SignatureLists, Shaders : LayoutShaderLists]

ArchiveCreateInfos ==
    [ppResourceSignatures : ArchiveSignatureLists, Shaders : ArchiveShaderLists]

\* an entry that the caller's vector holds before the query
PreBinding == [Name |-> "pre", ShaderStages |-> SHADER_TYPE_VERTEX, Register |-> 0, Space |-> 0]

(***************************************************************************)
(* State.                                                                  *)
(***************************************************************************)
VARIABLES
    CreateInfo,        \* the pipeline create info of the caller
    m_Shaders,         \* blob store of the archive for Vulkan
    PerDeviceData,     \* Data.PerDeviceData[Vulkan] of the pipeline
    patch,             \* the last call of PatchShadersVk for the pipeline
    ResourceBindings,  \* the vector handed to GetPipelineResourceBindingsVk
    query,             \* the last call of GetPipelineResourceBindingsVk
    threads,           \* the calls of PatchShadersVk that run concurrently
    m_ShadersMtx       \* owner of the lock of the deduplication table

(***************************************************************************)
(* State of one staging buffer of the WebGPU backend                       *)
(* (Graphics/GraphicsEngineWebGPU/src/BufferWebGPUImpl.cpp) with           *)
(* CPU_ACCESS_READ, and of the WebGPU implementation as far as the buffer  *)
(* sees it.                                                                *)
(***************************************************************************)
VARIABLES
    m_StagingBufferInfo,  \* the vector of StagingBufferSyncInfo
    m_Capacity,           \* m_StagingBufferInfo.capacity()
    m_Storage,            \* the allocation that holds the elements of the vector
    m_RefCount,           \* strong references to the buffer object
    m_MappedData,         \* contents of the CPU-side storage
    m_MapState,           \* BufferMapState of the buffer
    callbacks,            \* map requests whose callback WebGPU has not called yet
    acquired,             \* entries handed out and not yet passed to ProcessAsyncReadback
    readbacks,            \* number of calls of ProcessAsyncReadback so far
    staging,              \* the last call of GetStagingBufferInfo
    readback,             \* the last call of MapAsyncCallback
    mapCaller,            \* whether the caller holds a Map it has not matched by Unmap
    map                   \* the last call of Map or Unmap

bufVars == <<m_StagingBufferInfo, m_Capacity, m_Storage, m_RefCount, m_MappedData,
             m_MapState, callbacks, acquired, readbacks, staging, readback,
             mapCaller, map>>

vkVars == <<CreateInfo, m_Shaders, PerDeviceData, patch, ResourceBindings, query,
            threads, m_ShadersMtx>>

vars == <<CreateInfo, m_Shaders, PerDeviceData, patch, ResourceBindings, query,
          threads, m_ShadersMtx, bufVars>>

NotCalled == [Called |-> FALSE]

\* BufferMapState
BufferMapState_None == "None"
BufferMapState_Read == "Read"
BufferMapState_Write == "Write"

\* MAP_TYPE
MAP_READ == 1
MAP_WRITE == 2
MAP_READ_WRITE == 3

\* WGPUBufferMapState
WGPUBufferMapState_Unmapped == "Unmapped"
WGPUBufferMapState_Pending == "Pending"
WGPUBufferMapState_Mapped == "Mapped"

\* WGPUBufferMapAsyncStatus
WGPUBufferMapAsyncStatus_Success == "Success"
WGPUBufferMapAsyncStatus_ValidationError == "ValidationError"
WGPUBufferMapAsyncStatus_DestroyedBeforeCallback == "DestroyedBeforeCallback"

WGPUBufferMapAsyncStatuses ==
    { WGPUBufferMapAsyncStatus_Success,
      WGPUBufferMapAsyncStatus_ValidationError,
      WGPUBufferMapAsyncStatus_DestroyedBeforeCallback }

\* the buffer after its constructor: m_StagingBufferInfo.reserve(MaxPendingBuffers),
\* m_MappedData.resize(m_Desc.Size), one reference held by the creator
InitStagingBuffer ==
    /\ m_StagingBufferInfo = <<>>
    /\ m_Capacity = MaxPendingBuffers
    /\ m_Storage = 0
    /\ m_RefCount = 1
    /\ m_MappedData = 0
    /\ m_MapState = BufferMapState_None
    /\ callbacks = {}
    /\ acquired = {}
    /\ readbacks = 0
    /\ staging = NotCalled
    /\ readback = NotCalled
    /\ mapCaller = FALSE
    /\ map = NotCalled

Threads == {1, 2}

NoThread == 0

\* a thread that builds no pipeline
IdleThread ==
    [ pc |-> "idle",
      CreateInfo |-> [ppResourceSignatures |-> <<>>, Shaders |-> <<>>],
      Blobs |-> <<>>, Pos |-> 1, Found |-> NotFound,
      ShaderIndices |-> <<>>, Data |-> NoData, ret |-> FALSE ]

Without(rec, fields) == [f \in (DOMAIN rec) \ fields |-> rec[f]]

InitLayout ==
    /\ CreateInfo \in LayoutCreateInfos
    /\ m_Shaders = <<>>
    /\ PerDeviceData = NoData
    /\ patch = NotCalled
    /\ ResourceBindings = <<>>
    /\ query = NotCalled
    /\ threads = [t \in Threads |-> IdleThread]
    /\ m_ShadersMtx = NoThread
    /\ InitStagingBuffer

InitArchive ==
    /\ CreateInfo \in ArchiveCreateInfos
    /\ m_Shaders = <<>>
    /\ PerDeviceData = NoData
    /\ patch = NotCalled
    /\ ResourceBindings = <<>>
    /\ query = NotCalled
    /\ threads = [t \in Threads |-> IdleThread]
    /\ m_ShadersMtx = NoThread
    /\ InitStagingBuffer

PatchShadersVk ==
    \E SynthOk \in BOOLEAN :
        LET out == PatchShadersVkOutcome(CreateInfo, SynthOk, m_Shaders, PerDeviceData)
        IN  /\ Len(out.List) <= MaxBlobs
            /\ patch' = Without(out, {"List", "Data"})
            /\ m_Shaders' = out.List
            /\ PerDeviceData' = out.Data
            /\ UNCHANGED <<CreateInfo, ResourceBindings, query, threads, m_ShadersMtx>>
            /\ UNCHANGED bufVars

GetPipelineResourceBindingsVk ==
    \E Stages \in {SHADER_TYPE_UNKNOWN, SHADER_TYPE_VERTEX, SHADER_TYPE_PIXEL},
       Before \in {<<>>, <<PreBinding>>} :
        LET Info == [ppResourceSignatures |-> CreateInfo.ppResourceSignatures,
                     ShaderStages |-> Stages]
            out == GetPipelineResourceBindingsVkOutcome(Info, Before)
        IN  /\ query' = Without(out, {"ResourceBindings"})
            /\ ResourceBindings' = out.ResourceBindings
            /\ UNCHANGED <<CreateInfo, m_Shaders, PerDeviceData, patch, threads, m_ShadersMtx>>
            /\ UNCHANGED bufVars

\* after PatchShadersVk has run for a pipeline the caller turns to the next
\* pipeline: a new create info, a new Data
NewPipeline ==
    \E ci \in ArchiveCreateInfos :
        /\ patch.Called
        /\ CreateInfo' = ci
        /\ PerDeviceData' = NoData
        /\ patch' = NotCalled
        /\ ResourceBindings' = <<>>
        /\ query' = NotCalled
        /\ UNCHANGED <<m_Shaders, threads, m_ShadersMtx>>
        /\ UNCHANGED bufVars

Next == PatchShadersVk \/ GetPipelineResourceBindingsVk

Spec == InitLayout /\ [][Next]_vars

NextArchive == PatchShadersVk \/ GetPipelineResourceBindingsVk \/ NewPipeline

SpecArchive == InitArchive /\ [][NextArchive]_vars

(***************************************************************************)
(* PatchShadersVk called concurrently for different pipelines.  A call is  *)
(* split where it touches the blob store shared by the calls.              *)
(***************************************************************************)
ConcSignatureLists ==
    { <<Signature(0, <<ResCBuf0, ResTex0, ResSamp0>>)>>,
      <<Signature(1, <<ResTex0>>)>> }

ConcCreateInfos ==
    [ppResourceSignatures : ConcSignatureLists, Shaders : ArchiveShaderLists]

\* the blobs of the stages in the order in which the two loops archive them
RECURSIVE BlobsOfStage(_, _)
BlobsOfStage(Stage, i) ==
    IF i > Len(Stage.SPIRVs) THEN <<>>
    ELSE <<ShaderBlob(DeviceTypeVulkan, Stage.Serializable[i].Type, Stage.SPIRVs[i])>>
         \o BlobsOfStage(Stage, i + 1)

RECURSIVE BlobsOfStages(_, _)
BlobsOfStages(ShaderStagesVk, j) ==
    IF j > Len(ShaderStagesVk) THEN <<>>
    ELSE BlobsOfStage(ShaderStagesVk[j], 1) \o BlobsOfStages(ShaderStagesVk, j + 1)

\* the part of PatchShadersVk before the archiving loops: it works on the
\* create info and on locals of the call only
PrepareShaders(CI, SynthOk) ==
    LET ShaderStagesVk == ExtractShaders(CI.Shaders)
        UseDefault == NoSignaturesSupplied(CI)
        Def == CreateDefaultResourceSignature(ShaderStagesVk, SynthOk)
        ppSignatures == IF UseDefault THEN <<Def.pPRS>> ELSE CI.ppResourceSignatures
        Sorted == SortResourceSignatures(ppSignatures)
        Layout == AssignDescriptorSets(Sorted.Signatures, Sorted.SignaturesCount)
        Remap == RemapShaderResources(ShaderStagesVk, Sorted.Signatures,
                                      Sorted.SignaturesCount,
                                      Layout.BindIndexToDescSetIndex)
    IN  IF (UseDefault /\ ~Def.ok) \/ TryBlockThrew(Sorted, Remap)
        THEN [ok |-> FALSE, Blobs |-> <<>>]
        ELSE [ok |-> TRUE, Blobs |-> BlobsOfStages(Remap.Stages, 1)]

\* mutant: the table is entered without waiting for the lock
MutexAvailable_Unlocked(owner) == TRUE

\* std::mutex::lock returns only when no thread holds the mutex
MutexAvailable(owner) == owner = NoThread

InitConc ==
    /\ CreateInfo = IdleThread.CreateInfo
    /\ m_Shaders = <<>>
    /\ PerDeviceData = NoData
    /\ patch = NotCalled
    /\ ResourceBindings = <<>>
    /\ query = NotCalled
    /\ threads \in [Threads -> {[IdleThread EXCEPT !.CreateInfo = ci] : ci \in ConcCreateInfos}]
    /\ m_ShadersMtx = NoThread
    /\ InitStagingBuffer

seqVars == <<CreateInfo, PerDeviceData, patch, ResourceBindings, query>>

\* synthesis, sorting, layout and remapping
T_Prepare(t) ==
    /\ threads[t].pc = "idle"
    /\ \E SynthOk \in BOOLEAN :
         LET prep == PrepareShaders(threads[t].CreateInfo, SynthOk)
         IN  threads' = [threads EXCEPT ![t].pc = IF prep.ok THEN "archive" ELSE "done",
                                        ![t].Blobs = prep.Blobs,
                                        ![t].ret = FALSE]
    /\ UNCHANGED <<m_Shaders, m_ShadersMtx>>
    /\ UNCHANGED seqVars
    /\ UNCHANGED bufVars

\* SerializeShaderBytecode: entering the critical section
T_Lock(t) ==
    /\ threads[t].pc = "archive"
    /\ threads[t].Pos <= Len(threads[t].Blobs)
    /\ MutexAvailable(m_ShadersMtx)
    /\ m_ShadersMtx' = t
    /\ threads' = [threads EXCEPT ![t].pc = "find"]
    /\ UNCHANGED m_Shaders
    /\ UNCHANGED seqVars
    /\ UNCHANGED bufVars

\* SerializeShaderBytecode: lookup in the deduplication table
T_Find(t) ==
    /\ threads[t].pc = "find"
    /\ threads' = [threads EXCEPT ![t].pc = "emplace",
                                   ![t].Found = FindShader(m_Shaders, threads[t].Blobs[threads[t].Pos])]
    /\ UNCHANGED <<m_Shaders, m_ShadersMtx>>
    /\ UNCHANGED seqVars
    /\ UNCHANGED bufVars

\* SerializeShaderBytecode: insert if the lookup found nothing, push the
\* index, leave the critical section
T_Emplace(t) ==
    /\ threads[t].pc = "emplace"
    /\ m_Shaders' = EmplaceShader(m_Shaders, threads[t].Blobs[threads[t].Pos], threads[t].Found)
    /\ threads' = [threads EXCEPT ![t].pc = "archive",
                                   ![t].Pos = @ + 1,
                                   ![t].Found = NotFound,
                                   ![t].ShaderIndices =
                                       Append(@, ArchivedShaderIndex(m_Shaders, threads[t].Found))]
    /\ m_ShadersMtx' = NoThread
    /\ UNCHANGED seqVars
    /\ UNCHANGED bufVars

\* Data.PerDeviceData[Vulkan] = SerializeShadersForPSO(ShaderIndices); return true
T_Store(t) ==
    /\ threads[t].pc = "archive"
    /\ threads[t].Pos > Len(threads[t].Blobs)
    /\ threads' = [threads EXCEPT ![t].pc = "done",
                                   ![t].Data = SerializeShadersForPSO(threads[t].ShaderIndices),
                                   ![t].ret = TRUE]
    /\ UNCHANGED <<m_Shaders, m_ShadersMtx>>
    /\ UNCHANGED seqVars
    /\ UNCHANGED bufVars

NextConc ==
    \E t \in Threads : T_Prepare(t) \/ T_Lock(t) \/ T_Find(t) \/ T_Emplace(t) \/ T_Store(t)

SpecConc == InitConc /\ [][NextConc]_vars

(***************************************************************************)
(* Staging buffer of the WebGPU backend: read-back entries.                *)
(***************************************************************************)
\* nullptr returned by FindAvailableReadMemoryBuffer
NullBufferInfo == -1

\* StagingBufferSyncInfo of a new entry: the WebGPU buffer is created
\* unmapped, the sync point is created with value false
NewStagingBufferSyncInfo(Info) ==
    [ BufferIdentifier |-> Len(Info),
      wgpuBufferMapState |-> WGPUBufferMapState_Unmapped,
      wgpuBufferContents |-> 0,
      pSyncPoint |-> FALSE ]

\* indices (from 0) of the entries whose WebGPU buffer is unmapped
UnmappedEntries(Info) ==
    {i \in 0..(Len(Info) - 1) : Info[i + 1].wgpuBufferMapState = WGPUBufferMapState_Unmapped}

\* the entry at which the range-based for loop returns
FirstUnmappedEntry(Info) ==
    CHOOSE i \in UnmappedEntries(Info) : \A j \in UnmappedEntries(Info) : i <= j

\* capacities std::vector may choose when it grows (implementation-defined:
\* factor 1.5 or 2, at least one more element)
GrownCapacities(Capacity) ==
    {Max(Capacity + 1, Capacity + (Capacity \div 2)), Max(Capacity + 1, 2 * Capacity)}

\* m_StagingBufferInfo.emplace_back: the elements move to a new allocation
\* when the vector is full
EmplaceBack(Info, Capacity, Storage, BufferInfo, NewCapacity) ==
    IF Len(Info) < Capacity
    THEN [Info |-> Append(Info, BufferInfo), Capacity |-> Capacity, Storage |-> Storage]
    ELSE [Info |-> Append(Info, BufferInfo), Capacity |-> NewCapacity, Storage |-> Storage + 1]

\* FindAvailableReadMemoryBuffer; CreateOk is the result of
\* wgpuDeviceCreateBuffer, NewCapacity the choice of the vector when it grows
FindAvailableReadMemoryBuffer(Info, Capacity, Storage, CreateOk, NewCapacity) ==
    IF UnmappedEntries(Info) # {}
    THEN [ ret |-> FirstUnmappedEntry(Info),
           Reused |-> TRUE,
           MapStateOfReturned |-> Info[FirstUnmappedEntry(Info) + 1].wgpuBufferMapState,
           Info |-> [Info EXCEPT ![FirstUnmappedEntry(Info) + 1].pSyncPoint = FALSE],
           Capacity |-> Capacity,
           Storage |-> Storage,
           VerifyCapacityOk |-> TRUE ]
    ELSE IF ~CreateOk
    THEN [ ret |-> NullBufferInfo,
           Reused |-> FALSE,
           MapStateOfReturned |-> WGPUBufferMapState_Unmapped,
           Info |-> Info,
           Capacity |-> Capacity,
           Storage |-> Storage,
           VerifyCapacityOk |-> TRUE ]
    ELSE LET Grown == EmplaceBack(Info, Capacity, Storage,
                                  NewStagingBufferSyncInfo(Info), NewCapacity)
         IN  [ ret |-> Len(Grown.Info) - 1,
               Reused |-> FALSE,
               MapStateOfReturned |-> WGPUBufferMapState_Unmapped,
               Info |-> Grown.Info,
               Capacity |-> Grown.Capacity,
               Storage |-> Grown.Storage,
               VerifyCapacityOk |-> Grown.Capacity <= MaxPendingBuffers ]

\* GetStagingBufferInfo of a staging buffer with CPU_ACCESS_READ
GetStagingBufferInfo ==
    \E CreateOk \in BOOLEAN, NewCapacity \in GrownCapacities(m_Capacity) :
        LET out == FindAvailableReadMemoryBuffer(m_StagingBufferInfo, m_Capacity, m_Storage,
                                                 CreateOk, NewCapacity)
        IN  /\ m_StagingBufferInfo' = out.Info
            /\ m_Capacity' = out.Capacity
            /\ m_Storage' = out.Storage
            /\ acquired' = IF out.ret = NullBufferInfo THEN acquired ELSE acquired \cup {out.ret}
            /\ staging' = [ Called |-> TRUE, ret |-> out.ret, Reused |-> out.Reused,
                            MapStateOfReturned |-> out.MapStateOfReturned,
                            SizeBefore |-> Len(m_StagingBufferInfo),
                            VerifyCapacityOk |-> out.VerifyCapacityOk ]
            /\ UNCHANGED <<m_RefCount, m_MappedData, m_MapState, callbacks, readbacks,
                           readback, mapCaller, map>>
            /\ UNCHANGED vkVars

\* nullptr as pUserData
NullUserData == [Storage |-> -1, BufferIdx |-> -1]

\* &m_StagingBufferInfo[BufferIdx]: an address inside the current allocation
AddressOfEntry(Storage, BufferIdx) == [Storage |-> Storage, BufferIdx |-> BufferIdx]

\* ProcessAsyncReadback(BufferIdx): this->AddRef(); wgpuBufferMapAsync(...).
\* The caller passes the BufferIdentifier of an entry GetStagingBufferInfo
\* has handed out.  What the GPU has written to the WebGPU buffer by then is
\* named by the number of the read-back (0 names the initial content of the
\* CPU-side storage).
ProcessAsyncReadback ==
    \E BufferIdx \in acquired :
        /\ readbacks < MaxReadbacks
        /\ m_RefCount' = m_RefCount + 1
        /\ m_StagingBufferInfo' =
               [m_StagingBufferInfo EXCEPT
                   ![BufferIdx + 1].wgpuBufferMapState = WGPUBufferMapState_Pending,
                   ![BufferIdx + 1].wgpuBufferContents = readbacks + 1]
        /\ callbacks' = callbacks \cup
               {[BufferIdx |-> BufferIdx, pUserData |-> AddressOfEntry(m_Storage, BufferIdx)]}
        /\ acquired' = acquired \ {BufferIdx}
        /\ readbacks' = readbacks + 1
        /\ UNCHANGED <<m_Capacity, m_Storage, m_MappedData, m_MapState, staging,
                       readback, mapCaller, map>>
        /\ UNCHANGED vkVars

\* the state WebGPU leaves the buffer in when it calls the callback
MapStateAtCallback(MapStatus) ==
    IF MapStatus = WGPUBufferMapAsyncStatus_Success
    THEN WGPUBufferMapState_Mapped
    ELSE WGPUBufferMapState_Unmapped

\* whether the callback enters the block that copies, signals, unmaps and releases
CallbackCompletes(MapStatus, pUserData) ==
    MapStatus = WGPUBufferMapAsyncStatus_Success /\ pUserData # NullUserData

\* the lambda MapAsyncCallback of ProcessAsyncReadback.  BufferIdx names the
\* WebGPU buffer the request was made for.  A pUserData that points into an
\* allocation the vector has left is a dangling pointer: the block then
\* either runs as if the element were still there (FreedMemoryIntact) or
\* does not get through.
MapAsyncCallbackOutcome(MapStatus, BufferIdx, pUserData, Info, Storage, MappedData, RefCount, FreedMemoryIntact) ==
    LET AtCallback == [Info EXCEPT ![BufferIdx + 1].wgpuBufferMapState = MapStateAtCallback(MapStatus)]
        Dangling == CallbackCompletes(MapStatus, pUserData) /\ pUserData.Storage # Storage
        Runs == CallbackCompletes(MapStatus, pUserData) /\ (~Dangling \/ FreedMemoryIntact)
        \* memcpy(pBufferInfo->pMappedData, pData, pBufferInfo->MappedSize)
        Copied == AtCallback[BufferIdx + 1].wgpuBufferContents
        \* pBufferInfo->pSyncPoint->SetValue(true); wgpuBufferUnmap(...)
        Signalled == [AtCallback EXCEPT ![BufferIdx + 1].pSyncPoint = TRUE,
                                        ![BufferIdx + 1].wgpuBufferMapState = WGPUBufferMapState_Unmapped]
    IN  [ Called |-> TRUE,
          MapStatus |-> MapStatus,
          BufferIdx |-> BufferIdx,
          DevError |-> /\ MapStatus # WGPUBufferMapAsyncStatus_Success
                       /\ MapStatus # WGPUBufferMapAsyncStatus_DestroyedBeforeCallback,
          Dangling |-> Dangling,
          Copied |-> Runs,
          Signalled |-> Runs,
          Released |-> Runs,
          Info |-> IF Runs THEN Signalled ELSE AtCallback,
          MappedData |-> IF Runs THEN Copied ELSE MappedData,
          RefCount |-> IF Runs THEN RefCount - 1 ELSE RefCount ]

\* WebGPU calls the callback of one pending map request
MapAsyncCallback ==
    \E cb \in callbacks, MapStatus \in WGPUBufferMapAsyncStatuses, FreedMemoryIntact \in BOOLEAN :
        LET out == MapAsyncCallbackOutcome(MapStatus, cb.BufferIdx, cb.pUserData,
                                           m_StagingBufferInfo, m_Storage, m_MappedData,
                                           m_RefCount, FreedMemoryIntact)
        IN  /\ callbacks' = callbacks \ {cb}
            /\ m_StagingBufferInfo' = out.Info
            /\ m_MappedData' = out.MappedData
            /\ m_RefCount' = out.RefCount
            /\ readback' = Without(out, {"Info", "MappedData", "RefCount"})
            /\ UNCHANGED <<m_Capacity, m_Storage, m_MapState, acquired, readbacks,
                           staging, mapCaller, map>>
            /\ UNCHANGED vkVars

(***************************************************************************)
(* Staging buffer of the WebGPU backend: Map and Unmap.                    *)
(***************************************************************************)
MapTypes == {MAP_READ, MAP_WRITE, MAP_READ_WRITE}

\* what pMappedData holds when Map returns
MappedDataPointer == "m_MappedData.data()"
UnchangedPointer == "unchanged"

\* BufferWebGPUImpl::Map; VerifyOk is the assertion 'Buffer is already mapped'
MapOutcome(MapType, MapState) ==
    IF MapType = MAP_READ
    THEN [ Called |-> TRUE, Op |-> "Map", MapType |-> MapType,
           VerifyOk |-> MapState = BufferMapState_None,
           LogError |-> FALSE,
           pMappedData |-> MappedDataPointer,
           MapState |-> BufferMapState_Read ]
    ELSE IF MapType = MAP_WRITE
    THEN [ Called |-> TRUE, Op |-> "Map", MapType |-> MapType,
           VerifyOk |-> MapState = BufferMapState_None,
           LogError |-> FALSE,
           pMappedData |-> MappedDataPointer,
           MapState |-> BufferMapState_Write ]
    ELSE \* MAP_READ_WRITE: LOG_ERROR; any other value: UNEXPECTED
         [ Called |-> TRUE, Op |-> "Map", MapType |-> MapType,
           VerifyOk |-> MapState = BufferMapState_None,
           LogError |-> TRUE,
           pMappedData |-> UnchangedPointer,
           MapState |-> MapState ]

\* BufferWebGPUImpl::Unmap; VerifyOk is the assertion 'Buffer is not mapped'
UnmapOutcome(MapType, MapState) ==
    [ Called |-> TRUE, Op |-> "Unmap", MapType |-> MapType,
      VerifyOk |-> MapState # BufferMapState_None,
      LogError |-> FALSE,
      pMappedData |-> UnchangedPointer,
      MapState |-> BufferMapState_None ]

\* the caller maps a buffer it holds no Map of
Map ==
    \E MapType \in MapTypes :
        LET out == MapOutcome(MapType, m_MapState)
        IN  /\ ~mapCaller
            /\ m_MapState' = out.MapState
            /\ mapCaller' = TRUE
            /\ map' = out
            /\ UNCHANGED <<m_StagingBufferInfo, m_Capacity, m_Storage, m_RefCount,
                           m_MappedData, callbacks, acquired, readbacks, staging, readback>>
            /\ UNCHANGED vkVars

\* the caller unmaps with the map type of its Map
Unmap ==
    LET out == UnmapOutcome(map.MapType, m_MapState)
    IN  /\ mapCaller
        /\ m_MapState' = out.MapState
        /\ mapCaller' = FALSE
        /\ map' = out
        /\ UNCHANGED <<m_StagingBufferInfo, m_Capacity, m_Storage, m_RefCount,
                       m_MappedData, callbacks, acquired, readbacks, staging, readback>>
        /\ UNCHANGED vkVars

\* the Vulkan archiver at rest while the buffer is exercised
InitBuffer ==
    /\ CreateInfo = IdleThread.CreateInfo
    /\ m_Shaders = <<>>
    /\ PerDeviceData = NoData
    /\ patch = NotCalled
    /\ ResourceBindings = <<>>
    /\ query = NotCalled
    /\ threads = [t \in Threads |-> IdleThread]
    /\ m_ShadersMtx = NoThread
    /\ InitStagingBuffer

NextBuffer ==
    GetStagingBufferInfo \/ ProcessAsyncReadback \/ MapAsyncCallback \/ Map \/ Unmap

SpecBuffer == InitBuffer /\ [][NextBuffer]_vars

(***************************************************************************)
(* Properties.                                                             *)
(***************************************************************************)
Present(Signatures, i) == Signatures[i] # NullSignature

SetIds == {DESCRIPTOR_SET_ID_STATIC_MUTABLE, DESCRIPTOR_SET_ID_DYNAMIC}

\* number of descriptor sets that a signature has
NumDescriptorSets(sig) ==
    Cardinality({SetId \in SetIds : GetDescriptorSetSize(sig, SetId) # INVALID_SET_SIZE})

\* number of descriptor sets of the present signatures below slot i
SetsBelow(Signatures, i) ==
    Cardinality({p \in (0..(i - 1)) \X SetIds :
        /\ Present(Signatures, p[1])
        /\ GetDescriptorSetSize(Signatures[p[1]], p[2]) # INVALID_SET_SIZE})

Slots == 0..(MAX_RESOURCE_SIGNATURES - 1)

Min(a, b) == IF a <= b THEN a ELSE b

BothPathsRan ==
    /\ patch.Called
    /\ patch.SortOk
    /\ query.Called
    /\ ~query.Threw

PathsAgree ==
    /\ \A i \in Slots :
          Present(query.Signatures, i) => query.Visited[i] = patch.BindIndexToDescSetIndex[i]
    /\ query.DescSetLayoutCount = patch.DescSetLayoutCount

\* C1 as stated: for every signature list that both paths accept, the base
\* descriptor set index that the query adds at a present slot equals
\* BindIndexToDescSetIndex of the archiving path, and both paths end with the
\* same DescSetLayoutCount.
C1_PathsAgreeForEveryList == BothPathsRan => PathsAgree

\* C1 amended: the two paths agree for every accepted signature list that has
\* at least one entry; for a list of zero entries PatchShadersVk lays out the
\* synthesized default signature, which the query does not see.
C1_PathsAgreeForSuppliedSignatures ==
    (BothPathsRan /\ Len(CreateInfo.ppResourceSignatures) > 0) => PathsAgree

C1_Witness ==
    /\ BothPathsRan
    /\ Len(CreateInfo.ppResourceSignatures) > 0
    /\ \E i \in Slots : Present(query.Signatures, i) /\ query.Visited[i] > 0

\* descriptor set indices assigned to the signature of slot i
AssignedSets(Signatures, Base, i) ==
    Base[i]..(Base[i] + NumDescriptorSets(Signatures[i]) - 1)

\* the assigned indices are exactly 0 .. Count-1, in increasing slot order
CoversRange(Signatures, Base, Count) ==
    /\ UNION {AssignedSets(Signatures, Base, i) : i \in {s \in Slots : Present(Signatures, s)}}
         = 0..(Count - 1)
    /\ \A i, j \in Slots :
          (i < j /\ Present(Signatures, i) /\ Present(Signatures, j)) =>
              \A a \in AssignedSets(Signatures, Base, i), b \in AssignedSets(Signatures, Base, j) :
                  a < b

\* C2: after the layout traversal of an accepted signature list the count of
\* descriptor sets is at most 2 * MAX_RESOURCE_SIGNATURES, the assertion on
\* the count holds, and the indices assigned to the present signatures are
\* exactly 0 .. DescSetLayoutCount-1 without gap or overlap, in both paths.
C2_ContiguousBoundedSets ==
    /\ (patch.Called /\ patch.SortOk) =>
          /\ patch.DescSetLayoutCount <= 2 * MAX_RESOURCE_SIGNATURES
          /\ patch.VerifyCountOk
          /\ CoversRange(patch.Signatures, patch.BindIndexToDescSetIndex,
                         patch.DescSetLayoutCount)
    /\ (query.Called /\ ~query.Threw) =>
          /\ query.DescSetLayoutCount <= 2 * MAX_RESOURCE_SIGNATURES
          /\ query.VerifyMaxOk
          /\ CoversRange(query.Signatures, query.Visited, query.DescSetLayoutCount)

C2_Witness ==
    /\ patch.Called /\ patch.SortOk
    /\ query.Called /\ ~query.Threw
    /\ patch.DescSetLayoutCount = 2 * Min(MAX_RESOURCE_SIGNATURES, MaxSigCount)
    /\ query.DescSetLayoutCount = 2 * Min(MAX_RESOURCE_SIGNATURES, MaxSigCount)

\* C3: in PatchShadersVk an empty slot gets no entry (it keeps the initial 0)
\* and does not advance the counter, a present signature gets as its entry
\* the number of descriptor sets of the present signatures at lower binding
\* indices, and the final counter is the number of all descriptor sets; with
\* signature A at index 0 and B at index 1, one set each, A maps to 0 and B to 1.
C3_LayoutAssignment ==
    (patch.Called /\ patch.SortOk) =>
        /\ \A i \in Slots :
              patch.BindIndexToDescSetIndex[i] =
                  IF i < patch.SignaturesCount /\ Present(patch.Signatures, i)
                  THEN SetsBelow(patch.Signatures, i)
                  ELSE 0
        /\ patch.DescSetLayoutCount = SetsBelow(patch.Signatures, MAX_RESOURCE_SIGNATURES)
        /\ (patch.ppSignatures = <<Signature(0, <<ResTex0>>), Signature(1, <<ResCBuf0>>)>>) =>
              /\ patch.BindIndexToDescSetIndex[0] = 0
              /\ patch.BindIndexToDescSetIndex[1] = 1
              /\ patch.DescSetLayoutCount = 2

C3_Witness ==
    /\ patch.Called /\ patch.SortOk
    /\ patch.ppSignatures = <<Signature(0, <<ResTex0>>), Signature(1, <<ResCBuf0>>)>>
    /\ patch.BindIndexToDescSetIndex[1] = 1

\* positions of the non-null entries of a signature list
NonNull(pp) == {k \in 1..Len(pp) : pp[k] # NullSignature}

\* the binding indices of a list are in range and pairwise different
UniqueInRange(pp) ==
    \A k \in NonNull(pp) :
        /\ pp[k].BindingIndex \in Slots
        /\ \A m \in NonNull(pp) : m # k => pp[m].BindingIndex # pp[k].BindingIndex

SortedAsSpecified(pp, Signatures, Count) ==
    /\ \A k \in NonNull(pp) : Signatures[pp[k].BindingIndex] = pp[k]
    /\ \A i \in Slots :
          Present(Signatures, i) =>
              /\ \E k \in NonNull(pp) : pp[k].BindingIndex = i
              /\ Signatures[i].BindingIndex = i
    /\ \A k \in NonNull(pp) : pp[k].BindingIndex + 1 <= Count
    /\ Count = 0 \/ \E k \in NonNull(pp) : pp[k].BindingIndex + 1 = Count

SorterRan == patch.Called /\ \E k \in 1..Len(patch.Trace) : patch.Trace[k] = "sort"

\* C6: a list with unique binding indices in range is accepted by the sorter;
\* every non-null signature ends at the slot of its binding index, every
\* other slot is empty, the returned count is the largest used binding index
\* plus one, and the layout traversal finds BindingIndex == i at every
\* present slot i.
C6_SorterPlacement ==
    /\ (SorterRan /\ UniqueInRange(patch.ppSignatures)) =>
          /\ patch.SortOk
          /\ SortedAsSpecified(patch.ppSignatures, patch.Signatures, patch.SignaturesCount)
          /\ patch.VerifyOk
    /\ (query.Called /\ UniqueInRange(CreateInfo.ppResourceSignatures)) =>
          /\ ~query.Threw
          /\ SortedAsSpecified(CreateInfo.ppResourceSignatures, query.Signatures,
                               query.SignaturesCount)

C6_Witness ==
    /\ SorterRan
    /\ patch.SortOk
    /\ Len(patch.ppSignatures) = 2
    /\ patch.ppSignatures[1] # NullSignature
    /\ patch.ppSignatures[1].BindingIndex = 1
    /\ patch.ppSignatures[2] # NullSignature
    /\ patch.Signatures[0] = patch.ppSignatures[2]
    /\ patch.SignaturesCount = 2
    /\ query.Called /\ ~query.Threw

\* a resource passes the filter; SHADER_TYPE_UNKNOWN stands for all stages
PassesFilter(ResDesc, Filter) ==
    Filter = SHADER_TYPE_UNKNOWN \/ BitAnd(ResDesc.ShaderStages, Filter) # 0

ResourceIndices == UNION {0..(Len(res) - 1) : res \in SignatureResources}

\* the resources that the query has to report, as <<slot, resource index>>
ReportedResources(Signatures, Filter) ==
    {d \in Slots \X ResourceIndices :
        /\ Present(Signatures, d[1])
        /\ d[2] < GetTotalResourceCount(Signatures[d[1]])
        /\ PassesFilter(GetResourceDesc(Signatures[d[1]], d[2]), Filter)}

LexLess(d, e) == d[1] < e[1] \/ (d[1] = e[1] /\ d[2] < e[2])

\* position of a reported resource in the output
Rank(D, d) == 1 + Cardinality({e \in D : LexLess(e, d)})

ExpectedBinding(Signatures, d) ==
    [ Name |-> GetResourceDesc(Signatures[d[1]], d[2]).Name,
      ShaderStages |-> GetResourceDesc(Signatures[d[1]], d[2]).ShaderStages,
      Register |-> GetResourceAttribs(Signatures[d[1]], d[2]).BindingIndex,
      Space |-> SetsBelow(Signatures, d[1]) + GetResourceAttribs(Signatures[d[1]], d[2]).DescrSet ]

\* C7: the query keeps what the vector held and appends one record for every
\* declared resource whose stage mask intersects the filter and none for any
\* other, ordered by binding index and then by resource index; a record
\* carries the binding slot of the resource and as descriptor set the number
\* of descriptor sets of the present signatures below plus the resource's
\* DescrSet.
C7_ReportedBindings ==
    (query.Called /\ ~query.Threw) =>
        LET D == ReportedResources(query.Signatures, query.ShaderStages)
        IN  /\ Len(ResourceBindings) = query.SizeBefore + Cardinality(D)
            /\ \A k \in 1..query.SizeBefore : ResourceBindings[k] = PreBinding
            /\ \A d \in D :
                  ResourceBindings[query.SizeBefore + Rank(D, d)] =
                      ExpectedBinding(query.Signatures, d)

C7_Witness ==
    /\ query.Called /\ ~query.Threw
    /\ query.ShaderStages = SHADER_TYPE_VERTEX
    /\ query.SizeBefore = 1
    /\ Len(ResourceBindings) = 5
    /\ ResourceBindings[5].Space = 2
    /\ ResourceBindings[5].Register = 1

SynthesisInvoked == patch.Trace # <<>> /\ patch.Trace[1] = "synthesize"

\* C9: the default signature is synthesized exactly when the caller supplies
\* zero signatures; when the synthesis succeeds the sorter gets a list of
\* exactly that one signature, which has binding index 0 and is placed in
\* slot 0 before the layout is assigned; when it fails PatchShadersVk returns
\* false without sorting, remapping or archiving, and the archive and the
\* pipeline data stay as they are.
C9_DefaultSignature ==
    /\ [](patch.Called =>
            /\ SynthesisInvoked <=> (Len(CreateInfo.ppResourceSignatures) = 0)
            /\ (SynthesisInvoked /\ Len(patch.Trace) > 1) =>
                  /\ patch.Trace[2] = "sort"
                  /\ Len(patch.ppSignatures) = 1
                  /\ patch.ppSignatures[1] # NullSignature
                  /\ patch.ppSignatures[1].BindingIndex = 0
                  /\ patch.SortOk
                  /\ patch.Signatures[0] = patch.ppSignatures[1]
                  /\ patch.SignaturesCount = 1
                  /\ Len(patch.Trace) > 2 /\ patch.Trace[3] = "layout"
            /\ (SynthesisInvoked /\ Len(patch.Trace) = 1) =>
                  /\ ~patch.ret
                  /\ ~patch.SortOk
                  /\ ~patch.RemapOk
                  /\ patch.Serialized = <<>>
                  /\ patch.ShaderIndices = <<>>)
    /\ [][(patch'.Called /\ patch'.Trace = <<"synthesize">>) =>
             (m_Shaders' = m_Shaders /\ PerDeviceData' = PerDeviceData)]_vars

C9_Witness ==
    /\ patch.Called
    /\ SynthesisInvoked
    /\ patch.Trace = <<"synthesize">>
    /\ PerDeviceData # NoData
    /\ m_Shaders # <<>>

\* the list cannot be sorted: a binding index is used twice or is out of range
Rejected(pp) == ~UniqueInRange(pp)

\* C4: a signature list with a duplicate or out-of-range binding index is
\* rejected by both paths: PatchShadersVk returns false and keeps no
\* descriptor set mapping, remapped shader or archived index, the query
\* leaves by the exception without appending a binding, and no call on such a
\* list changes the archive or the pipeline data, so that a later call with a
\* valid list finds the state it would have found without the rejected call.
C4_RejectedListLeavesNoTrace ==
    /\ []((patch.Called /\ Rejected(CreateInfo.ppResourceSignatures)) =>
            /\ ~patch.ret
            /\ ~patch.SortOk
            /\ patch.Signatures = EmptySignatureArray
            /\ patch.BindIndexToDescSetIndex = EmptyBindIndexToDescSetIndex
            /\ patch.DescSetLayoutCount = 0
            /\ patch.Serialized = <<>>
            /\ patch.ShaderIndices = <<>>
            /\ PerDeviceData = NoData)
    /\ []((query.Called /\ Rejected(CreateInfo.ppResourceSignatures)) =>
            /\ query.Threw
            /\ Len(ResourceBindings) = query.SizeBefore
            /\ \A k \in 1..Len(ResourceBindings) : ResourceBindings[k] = PreBinding)
    /\ [][(Rejected(CreateInfo.ppResourceSignatures) /\ CreateInfo' = CreateInfo) =>
             (m_Shaders' = m_Shaders /\ PerDeviceData' = PerDeviceData)]_vars

C4_Witness ==
    /\ Rejected(CreateInfo.ppResourceSignatures)
    /\ patch.Called
    /\ query.Called
    /\ query.SizeBefore = 1
    /\ m_Shaders # <<>>
    /\ CreateInfo.Shaders # <<>>

\* C5: when the remapping of a shader stage fails PatchShadersVk returns
\* false, hands no blob of the pipeline to SerializeShaderBytecode and leaves
\* the archive and Data.PerDeviceData as they were; the pipeline data is
\* written only by a call in which every stage was remapped.
C5_AtomicPipelineBuild ==
    /\ []((patch.Called /\ patch.SortOk /\ ~patch.RemapOk) =>
            /\ ~patch.ret
            /\ patch.Serialized = <<>>
            /\ patch.ShaderIndices = <<>>)
    /\ [][(PerDeviceData' # PerDeviceData /\ patch'.Called) =>
             (patch'.ret /\ patch'.SortOk /\ patch'.RemapOk)]_vars
    /\ [][(patch'.Called /\ patch'.SortOk /\ ~patch'.RemapOk) =>
             (m_Shaders' = m_Shaders /\ PerDeviceData' = PerDeviceData)]_vars

\* a failed remapping of a pipeline of which one shader can be remapped
C5_Witness ==
    /\ patch.Called /\ patch.SortOk /\ ~patch.RemapOk
    /\ Len(CreateInfo.Shaders) = 2
    /\ CreateInfo.Shaders[1].Ref = ""
    /\ CreateInfo.Shaders[2].Ref # ""
    /\ m_Shaders # <<>>

BlobsStored(List) == {List[k] : k \in 1..Len(List)}

\* C8: the blob store holds every blob once, so that blobs that differ in
\* backend, stage or bytes have different indices; every index that a call
\* returns designates the blob that was archived; an index keeps designating
\* its blob; and a call all of whose blobs are in the store already returns
\* their indices and leaves the store as it is.
C8_Deduplication ==
    /\ [](\A a, b \in 1..Len(m_Shaders) : a # b => m_Shaders[a] # m_Shaders[b])
    /\ []((patch.Called /\ patch.ret) =>
            /\ Len(patch.ShaderIndices) = Len(patch.Serialized)
            /\ \A k \in 1..Len(patch.Serialized) :
                  /\ patch.ShaderIndices[k] \in 0..(Len(m_Shaders) - 1)
                  /\ m_Shaders[patch.ShaderIndices[k] + 1] = patch.Serialized[k])
    /\ [][/\ Len(m_Shaders') >= Len(m_Shaders)
          /\ \A k \in 1..Len(m_Shaders) : m_Shaders'[k] = m_Shaders[k]]_vars
    /\ [][(patch'.Called /\ patch'.ret /\
           \A k \in 1..Len(patch'.Serialized) : patch'.Serialized[k] \in BlobsStored(m_Shaders))
             => m_Shaders' = m_Shaders]_vars

\* a call that got the index of a blob archived before a blob it added
C8_Witness ==
    /\ patch.Called /\ patch.ret
    /\ Len(patch.ShaderIndices) = 2
    /\ patch.ShaderIndices[1] > patch.ShaderIndices[2]
    /\ patch.Serialized[1].Bytes = patch.Serialized[2].Bytes

InCriticalSection(t) == threads[t].pc \in {"find", "emplace"}

\* C10: under every interleaving of concurrent calls of PatchShadersVk at
\* most one call is between lookup and insert, the blob store holds every
\* blob once, every call that has finished holds for each of its blobs the
\* index at which the store holds that blob (two calls that archive the same
\* blob hold the same index), and the layout and remap step of a call changes
\* nothing but the locals of that call.
C10_ConcurrentArchiving ==
    /\ [](\A t, u \in Threads : (InCriticalSection(t) /\ InCriticalSection(u)) => t = u)
    /\ [](\A a, b \in 1..Len(m_Shaders) : a # b => m_Shaders[a] # m_Shaders[b])
    /\ [](\A t \in Threads :
            (threads[t].pc = "done" /\ threads[t].ret) =>
                /\ Len(threads[t].ShaderIndices) = Len(threads[t].Blobs)
                /\ \A k \in 1..Len(threads[t].Blobs) :
                      /\ threads[t].ShaderIndices[k] \in 0..(Len(m_Shaders) - 1)
                      /\ m_Shaders[threads[t].ShaderIndices[k] + 1] = threads[t].Blobs[k])
    /\ [][\A t \in Threads :
            (threads[t].pc = "idle" /\ threads'[t].pc # "idle") =>
                /\ m_Shaders' = m_Shaders
                /\ m_ShadersMtx' = m_ShadersMtx
                /\ \A u \in Threads \ {t} : threads'[u] = threads[u]]_vars

\* both calls have archived one and the same blob, and more than that blob
C10_Witness ==
    /\ \A t \in Threads : threads[t].pc = "done" /\ threads[t].ret
    /\ \E k, m \in 1..MaxShaders :
          /\ k <= Len(threads[1].Blobs)
          /\ m <= Len(threads[2].Blobs)
          /\ threads[1].Blobs[k] = threads[2].Blobs[m]
          /\ threads[1].ShaderIndices[k] = threads[2].ShaderIndices[m]
    /\ Len(m_Shaders) > 1

\* C11: when GetPipelineResourceBindingsVk has run on a list the sorter
\* accepts, its final assertion holds: the number of descriptor sets counted
\* is at least Info.ResourceSignaturesCount, also for lists with null entries
\* and for signatures that have neither descriptor set.
C11_FinalAssertionHolds ==
    (query.Called /\ ~query.Threw) => query.VerifyMinOk

\* C12: m_StagingBufferInfo of a CPU_ACCESS_READ staging buffer never holds
\* more than MaxPendingBuffers entries, its capacity stays at the reserved
\* MaxPendingBuffers and its elements are never moved, so the address a
\* pending map callback holds as user data designates a live entry; an entry
\* is handed out again only when its WebGPU buffer is unmapped.
C12_StagingEntriesStayInPlace ==
    /\ Len(m_StagingBufferInfo) <= MaxPendingBuffers
    /\ m_Capacity = MaxPendingBuffers
    /\ m_Storage = 0
    /\ \A cb \in callbacks :
          /\ cb.pUserData = AddressOfEntry(m_Storage, cb.BufferIdx)
          /\ cb.BufferIdx < Len(m_StagingBufferInfo)
    /\ staging.Called => staging.VerifyCapacityOk
    /\ (staging.Called /\ staging.Reused) =>
          staging.MapStateOfReturned = WGPUBufferMapState_Unmapped

\* C13: every reference ProcessAsyncReadback takes is released when the map
\* callback of that read-back runs, whatever its status: the buffer holds one
\* reference per callback still owed beyond the reference of its creator
\* (so the count is back at its value once no callback is owed), and a
\* callback that sets the sync point has copied the mapped data to the
\* CPU-side storage before.
C13_ReferencesReleased ==
    /\ m_RefCount = 1 + Cardinality(callbacks)
    /\ readback.Called => readback.Released
    /\ (readback.Called /\ readback.Signalled) =>
          /\ readback.Copied
          /\ m_StagingBufferInfo[readback.BufferIdx + 1].pSyncPoint =>
                m_MappedData = m_StagingBufferInfo[readback.BufferIdx + 1].wgpuBufferContents

\* C14: m_MapState is None exactly when the caller holds no Map (it starts
\* as None, a Map of any map type that returns leaves it different from
\* None, Read for MAP_READ and Write for MAP_WRITE, and Unmap returns it to
\* None), and in an alternating sequence of Map and Unmap neither the
\* assertion 'Buffer is already mapped' nor 'Buffer is not mapped' fails.
C14_MapUnmapStateMachine ==
    /\ (m_MapState = BufferMapState_None) <=> ~mapCaller
    /\ map.Called => map.VerifyOk
    /\ (map.Called /\ map.Op = "Map" /\ map.MapType = MAP_READ) =>
          m_MapState = BufferMapState_Read
    /\ (map.Called /\ map.Op = "Map" /\ map.MapType = MAP_WRITE) =>
          m_MapState = BufferMapState_Write

====
